---- MODULE Spec2Model ----
(***************************************************************************)
(* Plutus: the Redis-backed feature engine (feature_engine.py) and the     *)
(* stream consumer that drives it (consumer.py).                           *)
(*                                                                         *)
(* Time is counted in whole hours since 2024-01-01T00:00.  Every Redis     *)
(* command is one atomic step; the Python code that runs between two       *)
(* commands is folded into the step of the command that follows it.        *)
(* Keys written with an expiry are recorded in ttl; a run spans far less   *)
(* wall-clock time than the seven days of the expiry, so no key expires.   *)
(* Amounts are whole currency units; the features enrich rounds are        *)
(* counted in hundredths.  The decision logic of the consumer and of the   *)
(* /predict endpoint (app.py) is looked at on one scoring, apart from the  *)
(* stream.                                                                 *)
(***************************************************************************)
EXTENDS Integers, Sequences, FiniteSets, TLC

(* ------------------------------ bounds --------------------------------- *)
\* entries the producer appends to the stream
MaxStream == 2
\* times the Redis connection is lost
MaxFaults == 1
\* times a consumer process is killed and started again
MaxCrashes == 1
\* probabilities and thresholds are the multiples of 1 / Scale in [0, 1]
Scale == 20

(* ------------------------- program constants --------------------------- *)
\* consumer.py: xreadgroup(count=10)
Count == 10
\* feature_engine.py: timedelta(hours=1), timedelta(hours=24), timedelta(days=7)
OneHour == 1
OneDay == 24
SevenDays == 168
\* feature_engine.py line 143: time_since_last_txn without a last snapshot
NoLastMinutes == 99999

(* ------------------------------ inputs --------------------------------- *)
\* datetime.fromisoformat on the strings the inputs use: hours since
\* 2024-01-01T00:00; a string outside the table raises ValueError.
IsoHours ==
    ("2024-01-01T00:00" :> 0) @@ ("2024-01-07T00:00" :> 144) @@
    ("2024-01-07T23:00" :> 167) @@ ("2024-01-08T00:00" :> 168) @@
    ("2024-01-08T01:00" :> 169)

\* float() on the amount strings the inputs use; others raise ValueError.
FloatOf == ("100.0" :> 100) @@ ("500.0" :> 500) @@ ("40.0" :> 40)

\* LabelEncoder.classes_ of the three categorical columns, in the order of
\* cat_cols (data_preprocess.py) with the values the producer emits.
EncoderCols == <<"merchant_category", "payment_method", "country_code">>
EncoderClasses ==
    [merchant_category |-> {"groceries", "fuel", "travel"},
     payment_method    |-> {"card", "online", "wallet"},
     country_code      |-> {"US", "UK", "LK", "SG", "DE"}]

\* The transactions a producer may append.  A stream entry is a flat
\* string-keyed map; a missing key is a key outside the map's DOMAIN.
Catalog ==
    [a |-> [transaction_id |-> "t1", user_id |-> "u1",
            timestamp |-> "2024-01-08T00:00", amount |-> "100.0",
            merchant_category |-> "groceries", payment_method |-> "card",
            country_code |-> "US"],
     b |-> [transaction_id |-> "t2", user_id |-> "u1",
            timestamp |-> "2024-01-08T00:00", amount |-> "500.0",
            merchant_category |-> "groceries", payment_method |-> "card",
            country_code |-> "US"],
     c |-> [transaction_id |-> "t3", user_id |-> "u1",
            timestamp |-> "2024-01-07T23:00", amount |-> "40.0",
            merchant_category |-> "fuel", payment_method |-> "wallet",
            country_code |-> "LK"],
     d |-> [transaction_id |-> "t4", user_id |-> "u2",
            timestamp |-> "2024-01-08T01:00", amount |-> "100.0",
            merchant_category |-> "travel", payment_method |-> "online",
            country_code |-> "UK"],
     \* unknown merchant category for the scorer's encoder
     e |-> [transaction_id |-> "t5", user_id |-> "u1",
            timestamp |-> "2024-01-08T01:00", amount |-> "100.0",
            merchant_category |-> "crypto", payment_method |-> "card",
            country_code |-> "US"],
     \* unparseable timestamp
     f |-> [transaction_id |-> "t6", user_id |-> "u1",
            timestamp |-> "yesterday", amount |-> "100.0",
            merchant_category |-> "fuel", payment_method |-> "card",
            country_code |-> "US"],
     \* payment_method missing
     g |-> [transaction_id |-> "t7", user_id |-> "u2",
            timestamp |-> "2024-01-08T00:00", amount |-> "500.0",
            merchant_category |-> "fuel", country_code |-> "US"],
     \* country_code missing
     h |-> [transaction_id |-> "t8", user_id |-> "u1",
            timestamp |-> "2024-01-08T01:00", amount |-> "40.0",
            merchant_category |-> "fuel", payment_method |-> "card"],
     \* more than seven days before the others
     k |-> [transaction_id |-> "t9", user_id |-> "u1",
            timestamp |-> "2024-01-01T00:00", amount |-> "40.0",
            merchant_category |-> "groceries", payment_method |-> "card",
            country_code |-> "US"],
     \* an hour after a, five times its amount
     m |-> [transaction_id |-> "t0", user_id |-> "u1",
            timestamp |-> "2024-01-08T01:00", amount |-> "500.0",
            merchant_category |-> "groceries", payment_method |-> "card",
            country_code |-> "US"]]

Labels == DOMAIN Catalog
UserIds == {"u1", "u2"}
\* Redis orders equal scores by member, lexicographically
IdRank == ("t0" :> 0) @@ ("t9" :> 9) @@ ("t1" :> 1) @@ ("t2" :> 2) @@ ("t3" :> 3) @@ ("t4" :> 4) @@
          ("t5" :> 5) @@ ("t6" :> 6) @@ ("t7" :> 7) @@ ("t8" :> 8)
TxnIds == DOMAIN IdRank
Instances == {"i1", "i2"}

(* ------------------------------- state --------------------------------- *)
VARIABLES
    env,            \* scenario: producer pool, whether the producer repeats a
                    \* transaction, stream length, started instances
    stream,         \* transactions.stream: sequence of labels, entry id = index
    groupCreated,   \* fraud_group exists
    lastDelivered,  \* the group's last-delivered id
    pending,        \* the group's pending entries list: entry id -> consumer
    conn,           \* the Redis connection is up
    faults,         \* connection losses so far
    crashes,        \* process kills so far
    bodies,         \* txn:<id> keys: id -> {} or {json body}
    zsets,          \* user:<id> sorted sets: user -> set of <<member, score>>
    lasts,          \* user:<id>:last keys: user -> {} or {snapshot}
    merchants,      \* user:<id>:merchants sets: user -> set of categories
    ttl,            \* keys that carry an expiry
    pc,             \* per instance: position in consumer.py
    loc,            \* per instance: local variables of the loop and of enrich
    xacks,          \* history: xack commands executed per entry id
    outcome,        \* history: how enrich ended for each entry id
    orphaned,       \* history: entries that were pending for a killed process
    score           \* one scoring: probability, threshold, and what the
                    \* consumer and the /predict endpoint made of them

store == <<bodies, zsets, lasts, merchants, ttl>>
group == <<groupCreated, lastDelivered, pending>>
world == <<env, stream, conn, faults, crashes, score>>
hist == <<xacks, outcome, orphaned>>
vars == <<env, stream, groupCreated, lastDelivered, pending, conn, faults,
          crashes, bodies, zsets, lasts, merchants, ttl, pc, loc, xacks,
          outcome, orphaned, score>>

Entries == 1..(MaxStream + 1)

NoLoc ==
    [batch |-> <<>>, ids1h |-> {}, ids24h |-> {}, ids7d |-> {}, todo |-> <<>>,
     sum |-> 0, n |-> 0, last |-> {}, newMerchant |-> 0, geoJump |-> 0,
     exc |-> "none", unknown |-> <<>>, skipped |-> FALSE, received |-> {},
     issued |-> {}, enriched |-> {}]

InitRun(e) ==
    /\ env = e
    /\ stream = <<>>
    /\ groupCreated = FALSE
    /\ lastDelivered = 0
    /\ pending = [x \in Entries |-> "none"]
    /\ conn = TRUE
    /\ faults = 0
    /\ crashes = 0
    /\ bodies = [t \in TxnIds |-> {}]
    /\ zsets = [u \in UserIds |-> {}]
    /\ lasts = [u \in UserIds |-> {}]
    /\ merchants = [u \in UserIds |-> {}]
    /\ ttl = {}
    /\ pc = [i \in Instances |-> IF i \in e.instances THEN "start" ELSE "off"]
    /\ loc = [i \in Instances |-> NoLoc]
    /\ xacks = [x \in Entries |-> 0]
    /\ outcome = [x \in Entries |-> "none"]
    /\ orphaned = {}

\* app.py: the response of an endpoint that has not been called
NoResponse == [status |-> 0, decision |-> "none"]

\* no scoring is looked at
NoScore == [p |-> 0, t |-> 0, consumer |-> "none", http |-> NoResponse]

InitWith(e) == InitRun(e) /\ score = NoScore

\* one consumer, every transaction appended once
Init == InitWith([pool |-> {"a", "b", "e", "f", "g"}, unique |-> TRUE,
                  len |-> MaxStream, instances |-> {"i1"}])

(* ------------------------------ helpers -------------------------------- *)
Min(x, y) == IF x <= y THEN x ELSE y

Has(d, k) == k \in DOMAIN d

\* entry id and decoded transaction the instance is working on
\* (consumer.py: msg_id, txn = dict(txn_data))
MsgId(i) == Head(loc[i].batch)
Txn(i) == Catalog[stream[MsgId(i)]]

\* feature_engine.py lines 93-95: the exception the reads of user_id,
\* timestamp and amount raise, "none" when they succeed
ParseError(t) ==
    IF ~Has(t, "user_id") THEN "KeyError"
    ELSE IF ~Has(t, "timestamp") THEN "KeyError"
    ELSE IF t.timestamp \notin DOMAIN IsoHours THEN "ValueError"
    ELSE IF ~Has(t, "amount") THEN "KeyError"
    ELSE IF t.amount \notin DOMAIN FloatOf THEN "ValueError"
    ELSE "none"

\* timestamp.timestamp() of a parsed transaction
NowTs(t) == IsoHours[t.timestamp]

\* redis ZRANGEBYSCORE key min max: both ends inclusive
ZRangeByScore(u, lo, hi) ==
    {p[1] : p \in {q \in zsets[u] : lo <= q[2] /\ q[2] <= hi}}

\* the reply order of ZRANGEBYSCORE: by score, then by member
RECURSIVE InOrder(_)
InOrder(S) ==
    IF S = {} THEN <<>>
    ELSE LET m == CHOOSE p \in S : \A q \in S :
                      \/ p[2] < q[2]
                      \/ p[2] = q[2] /\ IdRank[p[1]] <= IdRank[q[1]]
         IN  <<m[1]>> \o InOrder(S \ {m})

\* faulty variant: an xack of an entry that is not pending puts it back
AckedFlips(i, x) ==
    /\ pending' = [pending EXCEPT ![x] = IF @ = "none" THEN i ELSE "none"]
    /\ xacks' = [xacks EXCEPT ![x] = @ + 1]

\* redis XACK: the entry leaves the pending entries list
Acked(i, x) ==
    /\ pending' = [pending EXCEPT ![x] = "none"]
    /\ xacks' = [xacks EXCEPT ![x] = @ + 1]

\* the locals of one pass of the inner for loop, reset for the next entry
Fresh(l, b) ==
    [NoLoc EXCEPT !.batch = b, !.received = l.received, !.issued = l.issued]

\* the inner for loop moves to the next entry, or the while loop to the
\* next xreadgroup
NextEntry(i, issuedNow) ==
    LET rest == Tail(loc[i].batch) IN
    /\ loc' = [loc EXCEPT ![i] =
                 [Fresh(@, rest) EXCEPT !.issued = @ \cup issuedNow]]
    /\ pc' = [pc EXCEPT ![i] = IF rest = <<>> THEN "claim" ELSE "enrich"]

\* an exception raised inside the inner try: control goes to line 151
Raise(i, kind) ==
    /\ pc' = [pc EXCEPT ![i] = "except"]
    /\ loc' = [loc EXCEPT ![i].exc = kind]

\* an exception raised inside enrich
EnrichRaise(i, kind) ==
    /\ Raise(i, kind)
    /\ outcome' = [outcome EXCEPT ![MsgId(i)] = kind]

(* ------------------------------ producer ------------------------------- *)
\* producer.py: r.xadd(STREAM, txn)
XAdd ==
    /\ Len(stream) < env.len
    /\ \E l \in env.pool :
          /\ env.unique => \A k \in 1..Len(stream) : stream[k] # l
          /\ stream' = Append(stream, l)
    /\ UNCHANGED <<env, score, group, conn, faults, crashes, store, pc, loc,
                   hist>>

(* ----------------------------- environment ----------------------------- *)
ConnDrop ==
    /\ conn
    /\ faults < MaxFaults
    /\ conn' = FALSE
    /\ faults' = faults + 1
    /\ UNCHANGED <<env, score, stream, group, crashes, store, pc, loc, hist>>

ConnRestore ==
    /\ ~conn
    /\ conn' = TRUE
    /\ UNCHANGED <<env, score, stream, group, faults, crashes, store, pc, loc,
                   hist>>

(* ------------------------------ consumer ------------------------------- *)
\* consumer.py lines 67-74: a ConnectionError is not a ResponseError and
\* ends the process; BUSYGROUP is swallowed
\* faulty variant: every ResponseError of xgroup_create is raised again
XGroupCreateStrict(i) ==
    /\ pc[i] = "start"
    /\ IF ~conn \/ groupCreated
       THEN /\ pc' = [pc EXCEPT ![i] = "dead"]
            /\ UNCHANGED group
       ELSE /\ pc' = [pc EXCEPT ![i] = "claim"]
            /\ groupCreated' = TRUE
            /\ lastDelivered' = 0
            /\ UNCHANGED pending
    /\ UNCHANGED <<world, store, loc, hist>>

XGroupCreate(i) ==
    /\ pc[i] = "start"
    /\ IF ~conn
       THEN /\ pc' = [pc EXCEPT ![i] = "dead"]
            /\ UNCHANGED group
       ELSE /\ pc' = [pc EXCEPT ![i] = "claim"]
            /\ groupCreated' = TRUE
            /\ lastDelivered' = IF groupCreated THEN lastDelivered ELSE 0
            /\ UNCHANGED pending
    /\ UNCHANGED <<world, store, loc, hist>>

\* faulty variant: a plain read of the stream, which moves no group cursor
XReadNoGroup(i) ==
    /\ pc[i] = "claim"
    /\ IF ~conn
       THEN /\ pc' = [pc EXCEPT ![i] = "sleep"]
            /\ UNCHANGED <<group, loc>>
       ELSE LET n == Min(Count, Len(stream))
                ids == [k \in 1..n |-> k]
                new == {k \in 1..n : k \notin loc[i].received}
            IN  IF new = {}
                THEN UNCHANGED <<group, loc, pc>>
                ELSE /\ pending' = [x \in Entries |->
                           IF x \in new THEN i ELSE pending[x]]
                     /\ loc' = [loc EXCEPT ![i] =
                           [Fresh(@, ids) EXCEPT !.received = @ \cup new]]
                     /\ pc' = [pc EXCEPT ![i] = "enrich"]
                     /\ UNCHANGED <<groupCreated, lastDelivered>>
    /\ UNCHANGED <<world, store, hist>>

\* faulty variant: no except clause around xreadgroup, a ConnectionError ends the
\* process
XReadGroupUncaught(i) ==
    /\ pc[i] = "claim"
    /\ IF ~conn
       THEN /\ pc' = [pc EXCEPT ![i] = "dead"]
            /\ UNCHANGED <<group, loc>>
       ELSE LET n == Min(Count, Len(stream) - lastDelivered)
                ids == [k \in 1..n |-> lastDelivered + k]
            IN  IF n = 0
                THEN UNCHANGED <<group, loc, pc>>
                ELSE /\ lastDelivered' = lastDelivered + n
                     /\ pending' = [x \in Entries |->
                           IF x \in {ids[k] : k \in 1..n} THEN i
                           ELSE pending[x]]
                     /\ loc' = [loc EXCEPT ![i] =
                           [Fresh(@, ids) EXCEPT
                               !.received = @ \cup {ids[k] : k \in 1..n}]]
                     /\ pc' = [pc EXCEPT ![i] = "enrich"]
                     /\ UNCHANGED groupCreated
    /\ UNCHANGED <<world, store, hist>>

\* consumer.py lines 86-92 (and 158-162 when the call raises)
XReadGroup(i) ==
    /\ pc[i] = "claim"
    /\ IF ~conn
       THEN /\ pc' = [pc EXCEPT ![i] = "sleep"]
            /\ UNCHANGED <<group, loc>>
       ELSE LET n == Min(Count, Len(stream) - lastDelivered)
                ids == [k \in 1..n |-> lastDelivered + k]
            IN  IF n = 0
                THEN UNCHANGED <<group, loc, pc>>
                ELSE /\ lastDelivered' = lastDelivered + n
                     /\ pending' = [x \in Entries |->
                           IF x \in {ids[k] : k \in 1..n} THEN i
                           ELSE pending[x]]
                     /\ loc' = [loc EXCEPT ![i] =
                           [Fresh(@, ids) EXCEPT
                               !.received = @ \cup {ids[k] : k \in 1..n}]]
                     /\ pc' = [pc EXCEPT ![i] = "enrich"]
                     /\ UNCHANGED groupCreated
    /\ UNCHANGED <<world, store, hist>>

\* consumer.py lines 158-168: time.sleep(5), then the while loop again
Sleep(i) ==
    /\ pc[i] = "sleep"
    /\ pc' = [pc EXCEPT ![i] = "claim"]
    /\ UNCHANGED <<world, group, store, loc, hist>>

(* ------------------------- FeatureEngine.enrich ------------------------ *)
\* faulty variant: the one-hour read has no upper end
ZRange1hNoUpper(i) ==
    /\ pc[i] = "enrich"
    /\ LET t == Txn(i) IN
       IF ParseError(t) # "none" THEN EnrichRaise(i, ParseError(t))
       ELSE IF ~conn THEN EnrichRaise(i, "ConnectionError")
       ELSE /\ loc' = [loc EXCEPT ![i].ids1h =
                  {p[1] : p \in {q \in zsets[t.user_id] :
                                   NowTs(t) - OneHour <= q[2]}}]
            /\ pc' = [pc EXCEPT ![i] = "z24h"]
            /\ UNCHANGED outcome
    /\ UNCHANGED <<world, group, store, xacks, orphaned>>

\* faulty variant: the transaction is added to the sorted set before the features
\* are computed
ZRange1hAfterStore(i) ==
    /\ pc[i] = "enrich"
    /\ LET t == Txn(i) IN
       IF ParseError(t) # "none"
       THEN EnrichRaise(i, ParseError(t)) /\ UNCHANGED zsets
       ELSE IF ~conn
       THEN EnrichRaise(i, "ConnectionError") /\ UNCHANGED zsets
       ELSE /\ zsets' = [zsets EXCEPT ![t.user_id] =
                  {p \in @ : p[1] # t.transaction_id}
                     \cup {<<t.transaction_id, NowTs(t)>>}]
            /\ loc' = [loc EXCEPT ![i].ids1h =
                  {p[1] : p \in {q \in zsets'[t.user_id] :
                      NowTs(t) - OneHour <= q[2] /\ q[2] <= NowTs(t)}}]
            /\ pc' = [pc EXCEPT ![i] = "z24h"]
            /\ UNCHANGED outcome
    /\ UNCHANGED <<world, group, bodies, lasts, merchants, ttl, xacks,
                   orphaned>>

\* feature_engine.py lines 93-112
ZRange1h(i) ==
    /\ pc[i] = "enrich"
    /\ LET t == Txn(i) IN
       IF ParseError(t) # "none" THEN EnrichRaise(i, ParseError(t))
       ELSE IF ~conn THEN EnrichRaise(i, "ConnectionError")
       ELSE /\ loc' = [loc EXCEPT ![i].ids1h =
                  ZRangeByScore(t.user_id, NowTs(t) - OneHour, NowTs(t))]
            /\ pc' = [pc EXCEPT ![i] = "z24h"]
            /\ UNCHANGED outcome
    /\ UNCHANGED <<world, group, store, xacks, orphaned>>

\* feature_engine.py lines 113-115
ZRange24h(i) ==
    /\ pc[i] = "z24h"
    /\ LET t == Txn(i) IN
       IF ~conn THEN EnrichRaise(i, "ConnectionError")
       ELSE /\ loc' = [loc EXCEPT ![i].ids24h =
                  ZRangeByScore(t.user_id, NowTs(t) - OneDay, NowTs(t))]
            /\ pc' = [pc EXCEPT ![i] = "z7d"]
            /\ UNCHANGED outcome
    /\ UNCHANGED <<world, group, store, xacks, orphaned>>

\* feature_engine.py lines 116-126
ZRange7d(i) ==
    /\ pc[i] = "z7d"
    /\ LET t == Txn(i)
           hit == {q \in zsets[t.user_id] :
                     NowTs(t) - SevenDays <= q[2] /\ q[2] <= NowTs(t)}
       IN
       IF ~conn THEN EnrichRaise(i, "ConnectionError")
       ELSE /\ loc' = [loc EXCEPT
                  ![i].ids7d = ZRangeByScore(t.user_id,
                                   NowTs(t) - SevenDays, NowTs(t)),
                  ![i].todo = InOrder(hit)]
            /\ pc' = [pc EXCEPT ![i] = IF hit = {} THEN "last" ELSE "get"]
            /\ UNCHANGED outcome
    /\ UNCHANGED <<world, group, store, xacks, orphaned>>

\* feature_engine.py lines 126-130: one pass of the loop over txn_ids_7d
GetTxn(i) ==
    /\ pc[i] = "get"
    /\ LET id == Head(loc[i].todo)
           rest == Tail(loc[i].todo)
           after == IF rest = <<>> THEN "last" ELSE "get"
       IN
       IF ~conn THEN EnrichRaise(i, "ConnectionError")
       ELSE IF bodies[id] = {}
       THEN /\ loc' = [loc EXCEPT ![i].todo = rest]
            /\ pc' = [pc EXCEPT ![i] = after]
            /\ UNCHANGED outcome
       ELSE LET obj == CHOOSE o \in bodies[id] : TRUE IN
            IF ~Has(obj, "amount") THEN EnrichRaise(i, "KeyError")
            ELSE IF obj.amount \notin DOMAIN FloatOf
            THEN EnrichRaise(i, "ValueError")
            ELSE /\ loc' = [loc EXCEPT ![i].todo = rest,
                                       ![i].sum = @ + FloatOf[obj.amount],
                                       ![i].n = @ + 1]
                 /\ pc' = [pc EXCEPT ![i] = after]
                 /\ UNCHANGED outcome
    /\ UNCHANGED <<world, group, store, xacks, orphaned>>

\* faulty variant: a last snapshot later than the transaction is an error
GetLastRejectsLater(i) ==
    /\ pc[i] = "last"
    /\ LET t == Txn(i) IN
       IF ~conn THEN EnrichRaise(i, "ConnectionError")
       ELSE IF \E s \in lasts[t.user_id] : IsoHours[s.timestamp] > NowTs(t)
       THEN EnrichRaise(i, "ValueError")
       ELSE /\ loc' = [loc EXCEPT ![i].last = lasts[t.user_id]]
            /\ pc' = [pc EXCEPT ![i] = "sismember"]
            /\ UNCHANGED outcome
    /\ UNCHANGED <<world, group, store, xacks, orphaned>>

\* feature_engine.py lines 137-143
GetLast(i) ==
    /\ pc[i] = "last"
    /\ LET t == Txn(i) IN
       IF ~conn THEN EnrichRaise(i, "ConnectionError")
       ELSE /\ loc' = [loc EXCEPT ![i].last = lasts[t.user_id]]
            /\ pc' = [pc EXCEPT ![i] = "sismember"]
            /\ UNCHANGED outcome
    /\ UNCHANGED <<world, group, store, xacks, orphaned>>

\* faulty variant: without a last snapshot every region counts as a jump
SIsMemberJumpWithoutLast(i) ==
    /\ pc[i] = "sismember"
    /\ LET t == Txn(i) IN
       IF ~Has(t, "merchant_category") THEN EnrichRaise(i, "KeyError")
       ELSE IF ~conn THEN EnrichRaise(i, "ConnectionError")
       ELSE IF loc[i].last # {} /\ ~Has(t, "country_code")
       THEN EnrichRaise(i, "KeyError")
       ELSE /\ loc' = [loc EXCEPT
                  ![i].newMerchant =
                      IF t.merchant_category \in merchants[t.user_id]
                      THEN 0 ELSE 1,
                  ![i].geoJump =
                      IF loc[i].last = {} THEN 1
                      ELSE IF (CHOOSE s \in loc[i].last : TRUE).country_code
                                # t.country_code
                      THEN 1 ELSE 0]
            /\ pc' = [pc EXCEPT ![i] = "setex_txn"]
            /\ UNCHANGED outcome
    /\ UNCHANGED <<world, group, store, xacks, orphaned>>

\* feature_engine.py lines 146-156
SIsMember(i) ==
    /\ pc[i] = "sismember"
    /\ LET t == Txn(i) IN
       IF ~Has(t, "merchant_category") THEN EnrichRaise(i, "KeyError")
       ELSE IF ~conn THEN EnrichRaise(i, "ConnectionError")
       ELSE IF loc[i].last # {} /\ ~Has(t, "country_code")
       THEN EnrichRaise(i, "KeyError")
       ELSE /\ loc' = [loc EXCEPT
                  ![i].newMerchant =
                      IF t.merchant_category \in merchants[t.user_id]
                      THEN 0 ELSE 1,
                  ![i].geoJump =
                      IF loc[i].last = {} THEN 0
                      ELSE IF (CHOOSE s \in loc[i].last : TRUE).country_code
                                # t.country_code
                      THEN 1 ELSE 0]
            /\ pc' = [pc EXCEPT ![i] = "setex_txn"]
            /\ UNCHANGED outcome
    /\ UNCHANGED <<world, group, store, xacks, orphaned>>

(* -------------------- FeatureEngine._store_transaction ----------------- *)
\* feature_engine.py lines 48-58
SetexTxn(i) ==
    /\ pc[i] = "setex_txn"
    /\ LET t == Txn(i) IN
       IF ~Has(t, "transaction_id")
       THEN EnrichRaise(i, "KeyError") /\ UNCHANGED <<bodies, ttl>>
       ELSE IF ~conn
       THEN EnrichRaise(i, "ConnectionError") /\ UNCHANGED <<bodies, ttl>>
       ELSE /\ bodies' = [bodies EXCEPT ![t.transaction_id] = {t}]
            /\ ttl' = ttl \cup {<<"txn", t.transaction_id, "">>}
            /\ pc' = [pc EXCEPT ![i] = "zadd"]
            /\ UNCHANGED <<loc, outcome>>
    /\ UNCHANGED <<world, group, zsets, lasts, merchants, xacks, orphaned>>

\* faulty variant: the index is written back from the members read at
\* line 118 plus the new one, not extended by one atomic ZADD
ZAddWriteBack(i) ==
    /\ pc[i] = "zadd"
    /\ LET t == Txn(i) IN
       IF ~conn THEN EnrichRaise(i, "ConnectionError") /\ UNCHANGED zsets
       ELSE /\ zsets' = [zsets EXCEPT ![t.user_id] =
                  {p \in @ : p[1] \in loc[i].ids7d}
                     \cup {<<t.transaction_id, NowTs(t)>>}]
            /\ pc' = [pc EXCEPT ![i] = "setex_last"]
            /\ UNCHANGED <<loc, outcome>>
    /\ UNCHANGED <<world, group, bodies, lasts, merchants, ttl, xacks,
                   orphaned>>

\* feature_engine.py lines 61-62
ZAdd(i) ==
    /\ pc[i] = "zadd"
    /\ LET t == Txn(i) IN
       IF ~conn THEN EnrichRaise(i, "ConnectionError") /\ UNCHANGED zsets
       ELSE /\ zsets' = [zsets EXCEPT ![t.user_id] =
                  {p \in @ : p[1] # t.transaction_id}
                     \cup {<<t.transaction_id, NowTs(t)>>}]
            /\ pc' = [pc EXCEPT ![i] = "setex_last"]
            /\ UNCHANGED <<loc, outcome>>
    /\ UNCHANGED <<world, group, bodies, lasts, merchants, ttl, xacks,
                   orphaned>>

\* faulty variant: the snapshot is written only when the entity has none
SetexLastIfAbsent(i) ==
    /\ pc[i] = "setex_last"
    /\ LET t == Txn(i) IN
       IF ~Has(t, "country_code")
       THEN EnrichRaise(i, "KeyError") /\ UNCHANGED <<lasts, ttl>>
       ELSE IF ~conn
       THEN EnrichRaise(i, "ConnectionError") /\ UNCHANGED <<lasts, ttl>>
       ELSE /\ lasts' = [lasts EXCEPT ![t.user_id] =
                  IF @ # {} THEN @
                  ELSE {[timestamp |-> t.timestamp,
                         country_code |-> t.country_code,
                         merchant_category |-> t.merchant_category,
                         amount |-> t.amount]}]
            /\ ttl' = ttl \cup {<<"user", t.user_id, "last">>}
            /\ pc' = [pc EXCEPT ![i] = "sadd"]
            /\ UNCHANGED <<loc, outcome>>
    /\ UNCHANGED <<world, group, bodies, zsets, merchants, xacks, orphaned>>

\* feature_engine.py lines 65-75
SetexLast(i) ==
    /\ pc[i] = "setex_last"
    /\ LET t == Txn(i) IN
       IF ~Has(t, "country_code")
       THEN EnrichRaise(i, "KeyError") /\ UNCHANGED <<lasts, ttl>>
       ELSE IF ~conn
       THEN EnrichRaise(i, "ConnectionError") /\ UNCHANGED <<lasts, ttl>>
       ELSE /\ lasts' = [lasts EXCEPT ![t.user_id] =
                  {[timestamp |-> t.timestamp,
                    country_code |-> t.country_code,
                    merchant_category |-> t.merchant_category,
                    amount |-> t.amount]}]
            /\ ttl' = ttl \cup {<<"user", t.user_id, "last">>}
            /\ pc' = [pc EXCEPT ![i] = "sadd"]
            /\ UNCHANGED <<loc, outcome>>
    /\ UNCHANGED <<world, group, bodies, zsets, merchants, xacks, orphaned>>

\* faulty variant: one merchant set shared by all entities
SAddShared(i) ==
    /\ pc[i] = "sadd"
    /\ LET t == Txn(i) IN
       IF ~conn THEN EnrichRaise(i, "ConnectionError") /\ UNCHANGED merchants
       ELSE /\ merchants' = [u \in UserIds |->
                                 merchants[u] \cup {t.merchant_category}]
            /\ pc' = [pc EXCEPT ![i] = "expire"]
            /\ UNCHANGED <<loc, outcome>>
    /\ UNCHANGED <<world, group, bodies, zsets, lasts, ttl, xacks, orphaned>>

\* feature_engine.py lines 78-79
SAdd(i) ==
    /\ pc[i] = "sadd"
    /\ LET t == Txn(i) IN
       IF ~conn THEN EnrichRaise(i, "ConnectionError") /\ UNCHANGED merchants
       ELSE /\ merchants' = [merchants EXCEPT ![t.user_id] =
                                 @ \cup {t.merchant_category}]
            /\ pc' = [pc EXCEPT ![i] = "expire"]
            /\ UNCHANGED <<loc, outcome>>
    /\ UNCHANGED <<world, group, bodies, zsets, lasts, ttl, xacks, orphaned>>

\* Python round(x, 2) of the quotient num / den (den > 0), counted in
\* hundredths: the nearest hundredth, a tie going to the even one
Round2(num, den) ==
    LET q == (100 * num) \div den
        r == (100 * num) % den
    IN  IF 2 * r < den THEN q
        ELSE IF 2 * r > den THEN q + 1
        ELSE IF q % 2 = 0 THEN q ELSE q + 1

\* faulty variant: without amounts in the window the average is 0
FeaturesZeroAverage(i) ==
    LET t == Txn(i)
        amount == FloatOf[t.amount]
        avgNum == IF loc[i].n > 0 THEN loc[i].sum ELSE 0
        avgDen == IF loc[i].n > 0 THEN loc[i].n ELSE 1
        dev == IF amount * avgDen >= avgNum THEN amount * avgDen - avgNum
               ELSE avgNum - amount * avgDen
    IN  [txn_count_1h |-> Cardinality(loc[i].ids1h),
         txn_count_24h |-> Cardinality(loc[i].ids24h),
         avg_amount_7d |-> Round2(avgNum, avgDen),
         amount_deviation |-> Round2(dev, avgDen),
         time_since_last_txn |->
             IF loc[i].last = {} THEN 100 * NoLastMinutes
             ELSE Round2(60 * (NowTs(t) - IsoHours[
                      (CHOOSE s \in loc[i].last : TRUE).timestamp]), 1),
         new_merchant_flag |-> loc[i].newMerchant,
         geo_jump |-> loc[i].geoJump,
         high_amount_flag |-> IF amount * avgDen > avgNum * 3 THEN 1 ELSE 0]

\* faulty variant: the current amount is part of the mean
FeaturesCountCurrent(i) ==
    LET t == Txn(i)
        amount == FloatOf[t.amount]
        avgNum == loc[i].sum + amount
        avgDen == loc[i].n + 1
        dev == IF amount * avgDen >= avgNum THEN amount * avgDen - avgNum
               ELSE avgNum - amount * avgDen
    IN  [txn_count_1h |-> Cardinality(loc[i].ids1h),
         txn_count_24h |-> Cardinality(loc[i].ids24h),
         avg_amount_7d |-> Round2(avgNum, avgDen),
         amount_deviation |-> Round2(dev, avgDen),
         time_since_last_txn |->
             IF loc[i].last = {} THEN 100 * NoLastMinutes
             ELSE Round2(60 * (NowTs(t) - IsoHours[
                      (CHOOSE s \in loc[i].last : TRUE).timestamp]), 1),
         new_merchant_flag |-> loc[i].newMerchant,
         geo_jump |-> loc[i].geoJump,
         high_amount_flag |-> IF amount * avgDen > avgNum * 3 THEN 1 ELSE 0]

\* feature_engine.py lines 121-122, 132-134, 139-143 and the dict of lines
\* 162-178: the features enrich returns, the three rounded ones counted in
\* hundredths.  The average is the fraction avgNum / avgDen.
Features(i) ==
    LET t == Txn(i)
        amount == FloatOf[t.amount]
        avgNum == IF loc[i].n > 0 THEN loc[i].sum ELSE amount
        avgDen == IF loc[i].n > 0 THEN loc[i].n ELSE 1
        dev == IF amount * avgDen >= avgNum THEN amount * avgDen - avgNum
               ELSE avgNum - amount * avgDen
    IN  [txn_count_1h |-> Cardinality(loc[i].ids1h),
         txn_count_24h |-> Cardinality(loc[i].ids24h),
         avg_amount_7d |-> Round2(avgNum, avgDen),
         amount_deviation |-> Round2(dev, avgDen),
         time_since_last_txn |->
             IF loc[i].last = {} THEN 100 * NoLastMinutes
             ELSE Round2(60 * (NowTs(t) - IsoHours[
                      (CHOOSE s \in loc[i].last : TRUE).timestamp]), 1),
         new_merchant_flag |-> loc[i].newMerchant,
         geo_jump |-> loc[i].geoJump,
         high_amount_flag |-> IF amount * avgDen > avgNum * 3 THEN 1 ELSE 0]

\* the columns whose value the encoder does not know, in encoders order
\* (consumer.py lines 111-113)
UnknownCols(t) ==
    SelectSeq(EncoderCols, LAMBDA c : t[c] \notin EncoderClasses[c])

\* feature_engine.py line 80, the return of lines 162-178 and
\* consumer.py lines 104-113
Expire(i) ==
    /\ pc[i] = "expire"
    /\ LET t == Txn(i) IN
       IF ~conn THEN EnrichRaise(i, "ConnectionError") /\ UNCHANGED ttl
       ELSE /\ ttl' = ttl \cup {<<"user", t.user_id, "merchants">>}
            /\ IF ~Has(t, "payment_method")
               THEN EnrichRaise(i, "KeyError")
               ELSE /\ outcome' = [outcome EXCEPT ![MsgId(i)] = "ok"]
                    /\ loc' = [loc EXCEPT ![i].unknown = UnknownCols(t),
                                          ![i].enriched = {Features(i)}]
                    /\ pc' = [pc EXCEPT ![i] =
                          IF UnknownCols(t) = <<>> THEN "predict"
                          ELSE "ack115"]
    /\ UNCHANGED <<world, group, bodies, zsets, lasts, merchants, xacks,
                   orphaned>>

(* ----------------------------- the decision --------------------------- *)
Probs == 0..Scale

\* consumer.py lines 131-136, probability p / Scale, threshold t / Scale;
\* threshold * 0.7 is compared as 7 * t against 10 * p
Decision(p, t) ==
    IF p >= t THEN "BLOCK"
    ELSE IF 10 * p >= 7 * t THEN "REVIEW"
    ELSE "ALLOW"

\* consumer.py lines 123-136 for a scorer that answered p
ConsumerDecides ==
    /\ score.consumer = "none"
    /\ score' = [score EXCEPT !.consumer = Decision(score.p, score.t)]
    /\ UNCHANGED <<env, stream, conn, faults, crashes, group, store, pc, loc,
                   hist>>

\* app.py lines 108-112
ApiDecision(p, t) ==
    IF p >= t THEN "BLOCK"
    ELSE IF 10 * p >= 7 * t THEN "REVIEW"
    ELSE "ALLOW"

\* app.py: the names bound at module level and inside predict() when line
\* 92 is reached
AppNames ==
    {"model", "encoders", "feature_list", "threshold", "explainer", "app",
     "txn", "data", "ts", "col", "encoder", "X", "prob", "pred",
     "shap_values"}

\* app.py lines 60-122, POST /predict for a row the encoders know and a
\* scorer that answered p: line 92 reads shap_vals; an unbound name raises
\* NameError, which line 121 turns into a 500 response
ApiPredict(p, t) ==
    IF "shap_vals" \notin AppNames
    THEN [status |-> 500, decision |-> "none"]
    ELSE [status |-> 200, decision |-> ApiDecision(p, t)]

HttpPredict ==
    /\ score.http = NoResponse
    /\ score' = [score EXCEPT !.http = ApiPredict(score.p, score.t)]
    /\ UNCHANGED <<env, stream, conn, faults, crashes, group, store, pc, loc,
                   hist>>

NextDecision == ConsumerDecides \/ HttpPredict

\* every probability and threshold, no stream and no consumer process
InitDecision ==
    /\ InitRun([pool |-> {}, unique |-> TRUE, len |-> 0, instances |-> {}])
    /\ \E p \in Probs, t \in Probs :
          score = [NoScore EXCEPT !.p = p, !.t = t]

\* the decision logic of the consumer and of the endpoint on one scoring
DecisionSpec == InitDecision /\ [][NextDecision]_vars

(* ------------------------ consumer: after enrich ----------------------- *)
\* consumer.py lines 113-116: xack, then `continue` of the encoder loop
XAck115(i) ==
    /\ pc[i] = "ack115"
    /\ IF ~conn
       THEN Raise(i, "ConnectionError") /\ UNCHANGED <<pending, xacks>>
       ELSE /\ Acked(i, MsgId(i))
            /\ loc' = [loc EXCEPT ![i].unknown = Tail(@),
                                  ![i].skipped = TRUE,
                                  ![i].issued = @ \cup {MsgId(i)}]
            /\ pc' = [pc EXCEPT ![i] =
                  IF Tail(loc[i].unknown) = <<>> THEN "predict" ELSE "ack115"]
    /\ UNCHANGED <<world, groupCreated, lastDelivered, store, outcome,
                   orphaned>>

\* consumer.py lines 120-146: the scorer is a black box; on a row that
\* still holds an unencoded string it may raise or answer
Predict(i) ==
    /\ pc[i] = "predict"
    /\ \/ /\ pc' = [pc EXCEPT ![i] = "ack149"]
          /\ UNCHANGED loc
       \/ /\ loc[i].skipped
          /\ Raise(i, "ModelError")
    /\ UNCHANGED <<world, group, store, hist>>

\* consumer.py line 149
XAck149(i) ==
    /\ pc[i] = "ack149"
    /\ IF ~conn
       THEN Raise(i, "ConnectionError") /\ UNCHANGED <<pending, xacks>>
       ELSE Acked(i, MsgId(i)) /\ NextEntry(i, {MsgId(i)})
    /\ UNCHANGED <<world, groupCreated, lastDelivered, store, outcome,
                   orphaned>>

\* faulty variant: the handler logs and raises again instead of acknowledging
XAck156Reraise(i) ==
    /\ pc[i] = "except"
    /\ pc' = [pc EXCEPT ![i] = "sleep"]
    /\ loc' = [loc EXCEPT ![i] = Fresh(@, <<>>)]
    /\ UNCHANGED <<pending, xacks>>
    /\ UNCHANGED <<world, groupCreated, lastDelivered, store, outcome,
                   orphaned>>

\* consumer.py lines 151-156; a ConnectionError of this xack leaves both
\* for loops and reaches line 158
XAck156(i) ==
    /\ pc[i] = "except"
    /\ IF ~conn
       THEN /\ pc' = [pc EXCEPT ![i] = "sleep"]
            /\ loc' = [loc EXCEPT ![i] = Fresh(@, <<>>)]
            /\ UNCHANGED <<pending, xacks>>
       ELSE Acked(i, MsgId(i)) /\ NextEntry(i, {MsgId(i)})
    /\ UNCHANGED <<world, groupCreated, lastDelivered, store, outcome,
                   orphaned>>

\* the process is killed and started again (consumer.py runs from the top);
\* what it had claimed stays in the group's pending entries list
Crash(i) ==
    /\ pc[i] \notin {"off", "dead"}
    /\ crashes < MaxCrashes
    /\ crashes' = crashes + 1
    /\ pc' = [pc EXCEPT ![i] = "start"]
    /\ loc' = [loc EXCEPT ![i] = Fresh(@, <<>>)]
    /\ orphaned' = orphaned \cup {x \in Entries : pending[x] = i}
    /\ UNCHANGED <<env, score, stream, group, conn, faults, store, xacks,
                   outcome>>

\* a shutdown request (SIGTERM, or SIGINT raising KeyboardInterrupt) reaches
\* the process: consumer.py installs no handler and its except clauses
\* (lines 151, 158, 163) catch Exception only, so the process ends where it
\* stands
Shutdown(i) ==
    /\ pc[i] \notin {"off", "dead", "stopped"}
    /\ pc' = [pc EXCEPT ![i] = "stopped"]
    /\ loc' = [loc EXCEPT ![i] = Fresh(@, <<>>)]
    /\ UNCHANGED <<world, group, store, hist>>

Step(i) ==
    \/ XGroupCreate(i) \/ XReadGroup(i) \/ Sleep(i)
    \/ ZRange1h(i) \/ ZRange24h(i) \/ ZRange7d(i) \/ GetTxn(i) \/ GetLast(i)
    \/ SIsMember(i) \/ SetexTxn(i) \/ ZAdd(i) \/ SetexLast(i) \/ SAdd(i)
    \/ Expire(i) \/ XAck115(i) \/ Predict(i) \/ XAck149(i) \/ XAck156(i)

Next == XAdd \/ ConnDrop \/ ConnRestore \/ \E i \in Instances : Step(i)

NextCrash == Next \/ \E i \in Instances : Crash(i)

NextStop == Next \/ \E i \in Instances : Shutdown(i)

\* a running process keeps running and a lost connection comes back;
\* nothing forces a connection loss, a kill or a new stream entry
Fairness == WF_vars(ConnRestore) /\ \A i \in Instances : WF_vars(Step(i))

\* one consumer; a good entry, an entry of unknown category, two poison ones
InitLoop == InitWith([pool |-> {"a", "e", "f", "g"}, unique |-> TRUE,
                      len |-> MaxStream, instances |-> {"i1"}])

\* two consumers of the same group
InitGroup == InitWith([pool |-> {"a", "e", "f"}, unique |-> TRUE,
                       len |-> MaxStream, instances |-> Instances])

\* one consumer; the producer may append the same transaction again
InitRedo == InitWith([pool |-> {"a", "b", "e"}, unique |-> FALSE,
                      len |-> MaxStream + 1, instances |-> {"i1"}])

Spec == Init /\ [][Next]_vars

\* one consumer that may be asked to shut down
StopSpec == Init /\ [][NextStop]_vars

\* the steps of a consumer whose Redis connection is never lost
EngineStep(i) ==
    \/ XGroupCreate(i) \/ XReadGroup(i)
    \/ ZRange1h(i) \/ ZRange24h(i) \/ ZRange7d(i) \/ GetTxn(i) \/ GetLast(i)
    \/ SIsMember(i) \/ SetexTxn(i) \/ ZAdd(i) \/ SetexLast(i) \/ SAdd(i)
    \/ Expire(i) \/ XAck115(i) \/ Predict(i) \/ XAck149(i) \/ XAck156(i)

NextEngine == XAdd \/ \E i \in Instances : EngineStep(i)

\* one consumer, three entries out of: transactions of u1 at the same hour,
\* an hour apart, out of order and more than seven days apart, one of u2,
\* one of unknown category and one without country_code
InitEngine == InitWith([pool |-> {"a", "b", "c", "d", "e", "h", "k", "m"},
                        unique |-> TRUE, len |-> MaxStream + 1,
                        instances |-> {"i1"}])

\* the feature engine driven by one consumer over a connection that stays up
EngineSpec == InitEngine /\ [][NextEngine]_vars

FairSpec == InitLoop /\ [][Next]_vars /\ Fairness

CrashSpec == InitLoop /\ [][NextCrash]_vars /\ Fairness

GroupSpec == InitGroup /\ [][Next]_vars

RedoSpec == InitRedo /\ [][Next]_vars

(* ------------------------------- claims -------------------------------- *)
Range(q) == {q[k] : k \in 1..Len(q)}

\* positions of enrich at which the reads of the history are not all done,
\* or are done and no write has been made
ReadPcs == {"enrich", "z24h", "z7d", "get", "last", "sismember", "setex_txn"}
\* positions inside _store_transaction after its first write
StorePcs == {"zadd", "setex_last", "sadd", "expire"}

Members(u) == {p[1] : p \in zsets[u]}

\* C1: while enrich(t) reads the history, and until its reads are done, the
\* history holds no trace of t: t's id is in no sorted set, t has no cached
\* body, and the ids enrich has read for the three windows do not contain t.
SelfExclusion ==
    \A i \in Instances :
        (pc[i] \in ReadPcs /\ ParseError(Txn(i)) = "none"
            /\ Has(Txn(i), "transaction_id")) =>
        LET id == Txn(i).transaction_id IN
        /\ bodies[id] = {}
        /\ \A u \in UserIds : id \notin Members(u)
        /\ id \notin loc[i].ids1h \cup loc[i].ids24h \cup loc[i].ids7d

\* C1 witness: enrich has finished its reads for a transaction of an entity
\* with history, and has written nothing yet
SelfExclusionWitness ==
    \E i \in Instances :
        /\ pc[i] = "setex_txn"
        /\ loc[i].ids7d # {}
        /\ loc[i].last # {}

\* the members of the entity's sorted set with a score in [lo, hi)
HalfOpen(u, lo, hi) == {p[1] : p \in {q \in zsets[u] : lo <= q[2] /\ q[2] < hi}}

\* C2: the 1h and 24h counts enrich computes for a transaction at T are the
\* numbers of earlier appended transactions of the entity with a timestamp
\* in [T-1h, T) and [T-24h, T); one stamped T or later is not counted
\* (stated for the runs in which the connection is never lost).
WindowHalfOpen ==
    \A i \in Instances :
        /\ (faults = 0 /\ pc[i] = "z24h") =>
              Cardinality(loc[i].ids1h) =
                 Cardinality(HalfOpen(Txn(i).user_id,
                     NowTs(Txn(i)) - OneHour, NowTs(Txn(i))))
        /\ (faults = 0 /\ pc[i] = "z7d") =>
              Cardinality(loc[i].ids24h) =
                 Cardinality(HalfOpen(Txn(i).user_id,
                     NowTs(Txn(i)) - OneDay, NowTs(Txn(i))))

\* C3: every entry a consumer has claimed is eventually acknowledged (no
\* process is killed, a lost connection comes back).
ClaimedEventuallyAcked ==
    \A x \in Entries : (pending[x] # "none") ~> (pending[x] = "none")

\* C4: at most one xack is issued for an entry.
AtMostOneXack == \A x \in Entries : xacks[x] <= 1

\* C5: an entry whose enrich was interrupted by the store being unavailable
\* is not acknowledged and stays pending.
StoreUnavailableStaysPending ==
    \A x \in Entries :
        outcome[x] = "ConnectionError" => xacks[x] = 0 /\ pending[x] # "none"

\* C6: an entry that was pending for a consumer when that consumer was
\* killed is eventually acknowledged (stated for the runs in which the
\* connection is never lost).
CrashRecovery ==
    \A x \in Entries : (x \in orphaned) ~> (xacks[x] > 0 \/ faults > 0)

\* a transaction enrich cannot decode or enrich: a required field is
\* missing, or the timestamp or the amount does not parse
IsPoison(t) ==
    \/ ParseError(t) # "none"
    \/ \E k \in {"transaction_id", "merchant_category", "payment_method",
                 "country_code"} : ~Has(t, k)

\* C7: a poison entry, and every entry after it in the stream, is
\* eventually acknowledged, in every run in which the connection is never
\* lost; and a consumer that has received an entry never stops.
PoisonDoesNotBlock ==
    /\ \A x \in Entries :
          (x <= Len(stream) /\ \E y \in 1..x : IsPoison(Catalog[stream[y]]))
             ~> (xacks[x] > 0 \/ faults > 0)
    /\ [](\A i \in Instances : pc[i] = "dead" => loc[i].received = {})

\* C7 witness: a poison entry and a later entry are both acknowledged and
\* the connection was never lost
PoisonWitness ==
    \E x, y \in 1..Len(stream) :
        /\ x < y
        /\ IsPoison(Catalog[stream[x]])
        /\ outcome[x] \in {"KeyError", "ValueError"}
        /\ xacks[x] > 0
        /\ xacks[y] > 0
        /\ faults = 0

\* C8: no entry is in the batches of two consumers, no entry was delivered
\* to two consumers, and an entry a consumer works on is pending for no
\* other consumer.
ExclusiveDelivery ==
    \A i, j \in Instances :
        i # j =>
        /\ Range(loc[i].batch) \cap Range(loc[j].batch) = {}
        /\ loc[i].received \cap loc[j].received = {}
        /\ \A x \in Range(loc[i].batch) : pending[x] # j

\* C8 witness: both consumers hold a claimed, unacknowledged entry
ExclusiveWitness ==
    /\ loc["i1"].batch # <<>> /\ pending[Head(loc["i1"].batch)] = "i1"
    /\ loc["i2"].batch # <<>> /\ pending[Head(loc["i2"].batch)] = "i2"

\* C9: a claim that fails because the connection is down acknowledges
\* nothing and is followed by the backoff; after the backoff the claim is
\* tried again; the loop, once entered, is never left; and every xack a
\* consumer issues is for an entry id a claim returned to it.
ClaimFailureBacksOff ==
    /\ [][\A i \in Instances :
            /\ (pc[i] = "claim" /\ ~conn /\ pc'[i] # pc[i]) =>
                  /\ pc'[i] = "sleep"
                  /\ xacks' = xacks
                  /\ pending' = pending
                  /\ loc'[i].issued = loc[i].issued
            /\ (pc[i] = "sleep" /\ pc'[i] # pc[i]) => pc'[i] = "claim"
            /\ pc[i] \notin {"start", "dead"} => pc'[i] # "dead"]_vars
    /\ [](\A i \in Instances : loc[i].issued \subseteq loc[i].received)

\* C9 witness: the first claim failed while an entry was waiting, and the
\* consumer is in its backoff
ClaimFailureWitness ==
    \E i \in Instances :
        /\ pc[i] = "sleep"
        /\ loc[i].received = {}
        /\ Len(stream) > 0
        /\ xacks = [x \in Entries |-> 0]

\* enrich is running for an entry whose transaction an earlier entry
\* carried too, and that earlier entry was enriched to the end
Redelivered(i) ==
    /\ loc[i].batch # <<>>
    /\ pc[i] \in ReadPcs \cup StorePcs
    /\ \E k \in 1..(MsgId(i) - 1) :
          stream[k] = stream[MsgId(i)] /\ outcome[k] = "ok"

\* C10: enrich of a transaction that was already processed leaves the
\* entity's time index, seen-merchant set and last-seen snapshot as they
\* were (stated for the runs in which the connection is never lost).
RedeliveryKeepsHistory ==
    [][(faults = 0 /\ \E i \in Instances : Redelivered(i)) =>
          /\ zsets' = zsets
          /\ merchants' = merchants
          /\ lasts' = lasts]_vars

\* what _store_transaction writes to user:<id>:last for transaction t
Snapshot(t) ==
    [timestamp |-> t.timestamp, country_code |-> t.country_code,
     merchant_category |-> t.merchant_category, amount |-> t.amount]

\* positions of the consumer between the return of enrich and the xack
DonePcs == {"ack115", "predict", "ack149"}

\* C11: two transactions of one entity whose enrich calls both returned,
\* in whatever order the two consumers' Redis commands were served: both ids
\* are in the entity's sorted set under their own timestamps, both merchant
\* categories are in its merchant set, and the last snapshot is the snapshot
\* of one of the two.
ConcurrentAppendsKeepBoth ==
    \A x, y \in 1..Len(stream) :
        LET tx == Catalog[stream[x]]
            ty == Catalog[stream[y]]
        IN  (x # y /\ outcome[x] = "ok" /\ outcome[y] = "ok"
                /\ tx.user_id = ty.user_id) =>
            /\ {<<tx.transaction_id, NowTs(tx)>>,
                 <<ty.transaction_id, NowTs(ty)>>} \subseteq zsets[tx.user_id]
            /\ {tx.merchant_category, ty.merchant_category}
                   \subseteq merchants[tx.user_id]
            /\ lasts[tx.user_id] \in {{Snapshot(tx)}, {Snapshot(ty)}}

\* C11 witness: both enrich calls have returned and neither had seen the
\* other's transaction when it read the history, so the two calls
\* overlapped
ConcurrentAppendsWitness ==
    \E i, j \in Instances :
        /\ i # j /\ pc[i] \in DonePcs /\ pc[j] \in DonePcs
        /\ Txn(i).user_id = Txn(j).user_id
        /\ outcome[MsgId(i)] = "ok" /\ outcome[MsgId(j)] = "ok"
        /\ Txn(j).transaction_id \notin loc[i].ids7d
        /\ Txn(i).transaction_id \notin loc[j].ids7d

\* C12: whenever enrich queries the history of an entity for a transaction
\* stamped T, the entity's sorted set holds no member older than the
\* seven-day horizon: every score is at least T - 7 days.
RetentionHorizon ==
    \A i \in Instances :
        (pc[i] \in ReadPcs /\ ParseError(Txn(i)) = "none") =>
        \A p \in zsets[Txn(i).user_id] : NowTs(Txn(i)) - SevenDays <= p[2]

\* C13: a consumer that has ended on a shutdown request has left no entry
\* it claimed unacknowledged: nothing is pending for it.
ShutdownLeavesNothingPending ==
    \A i \in Instances :
        pc[i] = "stopped" => \A x \in Entries : pending[x] # i

\* the features enrich returned for the entry the instance holds
Enriched(i) == CHOOSE f \in loc[i].enriched : TRUE

\* no earlier stream entry belongs to the entity of the entry the instance
\* holds
NoHistory(i) ==
    \A k \in 1..(MsgId(i) - 1) :
        Catalog[stream[k]].user_id # Txn(i).user_id

\* C14: for the first transaction of an entity, of amount a and whatever
\* region, enrich returns time_since_last_txn = 99999.0, new_merchant_flag
\* = 1, geo_jump = 0, avg_amount_7d = a, amount_deviation = 0,
\* high_amount_flag = 0, txn_count_1h = 0 and txn_count_24h = 0.
FirstEventFeatures ==
    \A i \in Instances :
        (pc[i] \in DonePcs /\ NoHistory(i)) =>
        /\ Enriched(i).time_since_last_txn = 100 * 99999
        /\ Enriched(i).new_merchant_flag = 1
        /\ Enriched(i).geo_jump = 0
        /\ Enriched(i).avg_amount_7d = 100 * FloatOf[Txn(i).amount]
        /\ Enriched(i).amount_deviation = 0
        /\ Enriched(i).high_amount_flag = 0
        /\ Enriched(i).txn_count_1h = 0
        /\ Enriched(i).txn_count_24h = 0

\* C14 witness: enrich has returned for the first transaction of an entity
\* while the store holds the history of another entity, from another region
FirstEventWitness ==
    \E i \in Instances :
        /\ pc[i] \in DonePcs /\ NoHistory(i) /\ MsgId(i) > 1
        /\ \E u \in UserIds \ {Txn(i).user_id} :
              /\ lasts[u] # {}
              /\ \A s \in lasts[u] : s.country_code # Txn(i).country_code

\* the other transactions the entity's history holds with a timestamp in
\* the seven days that end at the transaction the instance holds
PriorIds(i) ==
    {p[1] : p \in {q \in zsets[Txn(i).user_id] :
                     /\ q[1] # Txn(i).transaction_id
                     /\ NowTs(Txn(i)) - SevenDays <= q[2]
                     /\ q[2] <= NowTs(Txn(i))}}

RECURSIVE SumAmounts(_)
SumAmounts(ids) ==
    IF ids = {} THEN 0
    ELSE LET id == CHOOSE x \in ids : TRUE
         IN  FloatOf[(CHOOSE o \in bodies[id] : TRUE).amount]
                + SumAmounts(ids \ {id})

\* an earlier entry of the same entity with the same merchant category was
\* appended to the history
MerchantAppended(i) ==
    \E k \in 1..(MsgId(i) - 1) :
        /\ outcome[k] = "ok"
        /\ Catalog[stream[k]].user_id = Txn(i).user_id
        /\ Catalog[stream[k]].merchant_category = Txn(i).merchant_category

\* C15: when the history of the entity holds prior transactions with
\* amounts a1..an in the seven days ending at the current event, enrich of a
\* transaction of amount b returns avg_amount_7d = mean(a1..an) without b,
\* amount_deviation = |b - mean| (both rounded to hundredths),
\* high_amount_flag = 1 exactly when b > 3 x mean, and new_merchant_flag = 0
\* exactly when the merchant category was appended before.
MeanOfPriorAmounts ==
    \A i \in Instances :
        (pc[i] \in DonePcs /\ PriorIds(i) # {}) =>
        LET b == FloatOf[Txn(i).amount]
            n == Cardinality(PriorIds(i))
            s == SumAmounts(PriorIds(i))
        IN  /\ Enriched(i).avg_amount_7d = Round2(s, n)
            /\ Enriched(i).amount_deviation =
                  Round2(IF b * n >= s THEN b * n - s ELSE s - b * n, n)
            /\ Enriched(i).high_amount_flag = 1 <=> b * n > 3 * s
            /\ Enriched(i).new_merchant_flag = 0 <=> MerchantAppended(i)

\* C15 witness: after 100.0 an hour earlier at the same merchant, enrich of
\* 500.0 has returned txn_count_1h = 1, average 100.00, deviation 400.00,
\* high_amount_flag = 1 and new_merchant_flag = 0
MeanOfPriorWitness ==
    \E i \in Instances :
        /\ pc[i] \in DonePcs /\ MsgId(i) = 2
        /\ stream[1] = "a" /\ stream[2] = "m"
        /\ PriorIds(i) = {"t1"}
        /\ Enriched(i).txn_count_1h = 1
        /\ Enriched(i).avg_amount_7d = 10000
        /\ Enriched(i).amount_deviation = 40000
        /\ Enriched(i).high_amount_flag = 1
        /\ Enriched(i).new_merchant_flag = 0

\* the earlier entries of the same entity whose enrich returned, i.e. that
\* wrote the last snapshot
SnapshotWriters(i) ==
    {k \in 1..(MsgId(i) - 1) :
        /\ outcome[k] = "ok"
        /\ Catalog[stream[k]].user_id = Txn(i).user_id}

\* C16: geo_jump = 1 exactly when the entity has a last snapshot and the
\* country code of the incoming transaction differs from the snapshot's; it
\* is 0 when they are equal and 0 without a snapshot, whatever the region.
RegionJumpExact ==
    \A i \in Instances :
        pc[i] \in DonePcs =>
        LET W == SnapshotWriters(i) IN
        Enriched(i).geo_jump = 1 <=>
            /\ W # {}
            /\ LET k == CHOOSE w \in W : \A v \in W : v <= w
               IN  Catalog[stream[k]].country_code # Txn(i).country_code

\* C16 witness: enrich has returned a jump for an entity last seen in
\* another region, while the store already held a transaction of that very
\* region before the last one
RegionJumpWitness ==
    \E i \in Instances :
        /\ pc[i] \in DonePcs /\ MsgId(i) = 3
        /\ Enriched(i).geo_jump = 1
        /\ Cardinality(SnapshotWriters(i)) = 2
        /\ Catalog[stream[1]].country_code = Txn(i).country_code

\* the decision the policy names for probability p and threshold t
Policy(p, t) ==
    IF p >= t THEN "BLOCK"
    ELSE IF 7 * t <= 10 * p /\ p < t THEN "REVIEW"
    ELSE "ALLOW"

\* C17: for every probability p and threshold t the consumer's decision is
\* BLOCK when p >= t, REVIEW when 0.7 t <= p < t and ALLOW otherwise, and
\* the /predict endpoint answers the same decision for the same (p, t).
SameDecisionEverywhere ==
    /\ score.consumer # "none" => score.consumer = Policy(score.p, score.t)
    /\ score.http # NoResponse =>
           score.http.decision = Policy(score.p, score.t)

\* positions of a consumer that has not entered, or has left, the main loop
OutsidePcs == {"off", "start", "dead", "stopped"}

\* C18: a consumer inside the main loop has the group on the stream.  The
\* consumer that creates the group puts its read position at the origin of
\* the stream; a consumer that finds the group already created enters the
\* main loop all the same and leaves the group as it is; a consumer whose
\* xgroup_create fails otherwise (connection lost) stops for good.
StartupGroupCreation ==
    /\ [](\A i \in Instances : pc[i] \notin OutsidePcs => groupCreated)
    /\ [][\A i \in Instances :
            /\ (pc[i] = "start" /\ pc'[i] # "start") =>
                  IF ~conn THEN pc'[i] = "dead" /\ UNCHANGED group
                  ELSE IF groupCreated
                  THEN pc'[i] = "claim" /\ UNCHANGED group
                  ELSE pc'[i] = "claim" /\ groupCreated'
                          /\ lastDelivered' = 0
            /\ pc[i] = "dead" => pc'[i] = "dead"]_vars

\* C18 witness: two consumers are inside the main loop, so one of them
\* found the group already created, and entries have been delivered
StartupGroupWitness ==
    /\ \A i \in Instances : pc[i] \notin OutsidePcs
    /\ lastDelivered > 0

OutOfOrder(x) ==
    \E k \in 1..(x - 1) :
        /\ outcome[k] = "ok"
        /\ Catalog[stream[k]].user_id = Catalog[stream[x]].user_id
        /\ NowTs(Catalog[stream[k]]) > NowTs(Catalog[stream[x]])

\* the transaction is in the entity's sorted set under its own timestamp
\* and no other, and its merchant category is in the merchant set
Appended(t) ==
    /\ <<t.transaction_id, NowTs(t)>> \in zsets[t.user_id]
    /\ \A p \in zsets[t.user_id] :
          p[1] = t.transaction_id => p[2] = NowTs(t)
    /\ t.merchant_category \in merchants[t.user_id]

\* C20: enrich of a complete transaction that arrives out of order raises
\* nothing, and afterwards every transaction of the entity whose enrich
\* returned, the late one included, is in the sorted set under its own
\* timestamp with its merchant category in the merchant set.
OutOfOrderTolerated ==
    \A x \in 1..Len(stream) :
        LET t == Catalog[stream[x]] IN
        (~IsPoison(t) /\ OutOfOrder(x)) =>
        /\ outcome[x] \in {"none", "ok"}
        /\ \A k \in 1..x :
              LET s == Catalog[stream[k]] IN
              (outcome[k] = "ok" /\ s.user_id = t.user_id) => Appended(s)

\* C20 witness: enrich has returned for a transaction stamped before the
\* entity's last snapshot, with a negative time since the last transaction
OutOfOrderWitness ==
    \E i \in Instances :
        /\ pc[i] \in DonePcs
        /\ OutOfOrder(MsgId(i))
        /\ outcome[MsgId(i)] = "ok"
        /\ Enriched(i).time_since_last_txn < 0

\* C21: an entry with a categorical value the encoders do not know is
\* acknowledged and skipped: the scorer is never called for it, so the
\* consumer neither holds a decision for it nor an error of the scorer.
UnknownCategorySkipped ==
    \A i \in Instances :
        loc[i].skipped =>
            /\ pc[i] # "ack149"
            /\ ~(pc[i] = "except" /\ loc[i].exc = "ModelError")

\* C22: when enrich(t) has returned and no other enrich runs for the entity,
\* the history reflects t in all four parts: the sorted set holds t's id
\* scored by t's timestamp, txn:<id> holds t's body, the last snapshot is
\* t's timestamp, country code, merchant category and amount, and the
\* merchant set holds t's merchant category.
HistoryReflectsTransaction ==
    \A i \in Instances :
        pc[i] \in DonePcs =>
        LET t == Txn(i) IN
        /\ <<t.transaction_id, NowTs(t)>> \in zsets[t.user_id]
        /\ bodies[t.transaction_id] = {t}
        /\ lasts[t.user_id] = {Snapshot(t)}
        /\ t.merchant_category \in merchants[t.user_id]

\* C22 witness: enrich has returned for a transaction of an entity that had
\* a last snapshot of another transaction before
HistoryReflectsWitness ==
    \E i \in Instances :
        /\ pc[i] \in DonePcs
        /\ loc[i].last # {}
        /\ loc[i].last # {Snapshot(Txn(i))}

\* the earlier stream entries of the entity of the entry the instance holds
OwnEarlier(i) ==
    {k \in 1..(MsgId(i) - 1) :
        Catalog[stream[k]].user_id = Txn(i).user_id}

\* C23: a step of enrich for a transaction of one entity leaves the sorted
\* set, the last snapshot and the merchant set of every other entity as
\* they were, and the cached body of every other transaction as it was;
\* the ids and the snapshot enrich has read for an entity come from that
\* entity's own earlier transactions only.
CrossEntityIndependence ==
    /\ [](\A i \in Instances :
            pc[i] \in DonePcs =>
            /\ loc[i].ids7d \subseteq
                  {Catalog[stream[k]].transaction_id : k \in OwnEarlier(i)}
            /\ loc[i].last \subseteq
                  {Snapshot(Catalog[stream[k]]) :
                      k \in {o \in OwnEarlier(i) : outcome[o] = "ok"}})
    /\ [][\A i \in Instances :
          (pc[i] \in ReadPcs \cup StorePcs /\ pc'[i] # pc[i]) =>
          /\ \A u \in UserIds \ {Txn(i).user_id} :
                /\ zsets'[u] = zsets[u]
                /\ lasts'[u] = lasts[u]
                /\ merchants'[u] = merchants[u]
          /\ \A id \in TxnIds :
                (Has(Txn(i), "transaction_id")
                    /\ id # Txn(i).transaction_id) =>
                bodies'[id] = bodies[id]]_vars

\* C23 witness: enrich has stored a transaction of one entity while the
\* store holds the full history of a transaction of another entity
CrossEntityWitness ==
    \E i \in Instances : \E u \in UserIds :
        /\ pc[i] = "expire"
        /\ u # Txn(i).user_id
        /\ zsets[u] # {} /\ lasts[u] # {} /\ merchants[u] # {}
        /\ \E id \in Members(u) : bodies[id] # {}

\* C24: a batch holds at most Count entries, at most Count entries are
\* pending for an instance, and an instance that is about to claim has
\* nothing of an earlier batch left unacknowledged.
BoundedBatches ==
    \A i \in Instances :
        /\ Len(loc[i].batch) <= Count
        /\ Cardinality({x \in Entries : pending[x] = i}) <= Count
        /\ pc[i] = "claim" => \A x \in Entries : pending[x] # i

\* some instance is inside _store_transaction for the transaction
Storing(t) ==
    \E i \in Instances :
        /\ pc[i] \in StorePcs \cup {"setex_txn"}
        /\ Txn(i).transaction_id = t.transaction_id

\* C25: when enrich(t) has raised, t is neither in the entity's sorted set
\* nor in the body cache; and when t is in the sorted set and no
\* _store_transaction is under way for it, the entity has a last snapshot
\* and its merchant set holds t's merchant category.
AppendAllOrNothing ==
    \A x \in 1..Len(stream) :
        LET t == Catalog[stream[x]] IN
        (ParseError(t) = "none" /\ Has(t, "transaction_id")) =>
        /\ outcome[x] \notin {"none", "ok"} =>
              /\ t.transaction_id \notin Members(t.user_id)
              /\ bodies[t.transaction_id] = {}
        /\ (t.transaction_id \in Members(t.user_id) /\ ~Storing(t)) =>
              /\ lasts[t.user_id] # {}
              /\ t.merchant_category \in merchants[t.user_id]

\* C26: whatever another instance appends for the same entity between the
\* three reads, the counts enrich returns satisfy 0 <= txn_count_1h <=
\* txn_count_24h, and txn_count_24h is at most the number of ids read for
\* the seven-day window.
WindowNesting ==
    \A i \in Instances :
        pc[i] \in DonePcs =>
        /\ 0 <= Enriched(i).txn_count_1h
        /\ Enriched(i).txn_count_1h <= Enriched(i).txn_count_24h
        /\ Enriched(i).txn_count_24h <= Cardinality(loc[i].ids7d)

\* C26 witness: enrich has returned txn_count_1h = 0 and txn_count_24h = 1
\* although the one transaction counted lies within the hour: the other
\* instance appended it between the two reads
WindowNestingWitness ==
    \E i \in Instances :
        /\ pc[i] \in DonePcs
        /\ Enriched(i).txn_count_1h = 0
        /\ Enriched(i).txn_count_24h = 1
        /\ \A p \in zsets[Txn(i).user_id] :
              NowTs(Txn(i)) - OneHour <= p[2] /\ p[2] <= NowTs(Txn(i))
====
